---- MODULE Spec2Model ----
(***************************************************************************)
(* Data synchronisation of the arbitrage dashboard: the page components    *)
(* (Items, Opportunities, Dashboard, Orders, Listings, Settings) with     *)
(* their                                                                   *)
(* useQuery / useMutation calls, the query cache they share, the HTTP      *)
(* requests in flight, and the Telegram mini-app with its hand-written     *)
(* fetches.  The backend is not part of the sources; it is modelled from   *)
(* the specification (sections 3, 6 and 7).                                *)
(***************************************************************************)
EXTENDS Integers, FiniteSets, Sequences, TLC

\* ------------------------------------------------------------------ bounds
NItems == 13        \* items the backend knows; all start pending
NOrders == 21       \* orders the backend knows; none is completed at first
MaxFetches == 2     \* GET requests simultaneously on the wire
MaxMuts == 2        \* state-changing requests simultaneously on the wire
MaxLen == 2         \* characters typed into the Dashboard search box
MaxTgLen == 1       \* characters typed into the mini-app search box
NCategories == 2    \* category presets the backend offers
NListings == 21     \* listings the backend knows
MaxRetries == 1     \* times the cache calls a failed queryFn again

\* ------------------------------------------------------- program constants
PerPageItems == 12  \* Items.tsx: itemsApi.getPending({ page, per_page: 12 })
PerPageOrders == 20 \* Orders: ordersApi.getPending({ page, per_page: 20 })
MinScore == 60      \* Opportunities.tsx: aiApi.getOpportunities(60)
PerPageListings == 20 \* Listings.tsx: listingsApi.getAll({ page, per_page: 20, .. })

ItemIds == 1..NItems
OrderIds == 1..NOrders
CategoryIds == 1..NCategories
ListingIds == 1..NListings

\* The card the modelled user acts on: the one of the last item, alone on
\* the last page.
ClickItems == {NItems}

\* The order the modelled user completes: the first one.
ClickOrders == {1}

Max(a, b) == IF a >= b THEN a ELSE b
Min(a, b) == IF a <= b THEN a ELSE b
CeilDiv(a, b) == (a + b - 1) \div b

MaxPage == Max(1, CeilDiv(NItems, PerPageItems))
MaxListPage == Max(1, CeilDiv(NListings, PerPageListings))
MaxOrdersPage == Max(1, CeilDiv(NOrders, PerPageOrders))

\* --------------------------------------------------------------- the views
DashViews == {"Dashboard", "Items", "Opportunities", "Orders", "Listings",
              "Settings"}

\* ------------------------------------------------------------ query keys
Key(kind, p, f) == [kind |-> kind, page |-> p, filter |-> f]

PendingKey(p) == Key("pending-items", p, "")
OppKey == Key("opportunities", 0, "")
StatsKey == Key("dashboard-stats", 0, "")
OrdersKey(p, pendingOnly) ==
    Key("orders", p, IF pendingOnly THEN "pending" ELSE "all")
SchedKey == Key("scheduler-status", 0, "")
CatKey == Key("categories", 0, "")
ProfitKey == Key("daily-profit", 0, "")

\* The values of the status <select> the modelled user picks; FilterAll is
\* "Tutti gli stati" (statusFilter undefined, no status parameter sent).
FilterAll == ""
FilterValues == {FilterAll, "draft"}
ListingsKey(p, f) == Key("listings", p, f)

Keys == {PendingKey(p) : p \in 1..MaxPage}
        \cup {OppKey, StatsKey, ProfitKey, SchedKey, CatKey}
        \cup {OrdersKey(p, b) : p \in 1..MaxOrdersPage, b \in BOOLEAN}
        \cup {ListingsKey(p, f) : p \in 1..MaxListPage, f \in FilterValues}

\* ----------------------------------------------------------- HTTP payloads
\* One shape for every response body: the rows are <<id, status>> pairs.
NoData == [rows |-> {}, total |-> 0, pages |-> 0, running |-> FALSE,
           completed |-> 0]

Ids(d) == {r[1] : r \in d.rows}

NoEntry == [exists |-> FALSE, hasData |-> FALSE, data |-> NoData,
            invalidated |-> FALSE, fetching |-> FALSE, err |-> FALSE,
            retryWait |-> 0]

VARIABLES
    itemStatus,       \* backend: status of every item
    orderStatus,      \* backend: status of every order
    schedRunning,     \* backend: scheduler running
    view,             \* the route that is mounted
    page,             \* Items, Listings: const [page, setPage] = useState(1)
    showPendingOnly,  \* Orders: useState(true)
    statusFilter,     \* Listings: useState<string | undefined>()
    searchQuery,      \* Dashboard: useState('')
    isScrapingStarted,\* Dashboard: useState(false)
    cache,            \* the query cache, one entry per query key
    fetches,          \* GET requests on the wire
    muts,             \* state-changing requests on the wire
    awaiting,         \* mutations whose onSuccess awaits the refetch it started
    settled,          \* the outcome of the mutation that settled last
    tg,               \* the Telegram mini-app: its useState values and its calls
    focused,          \* focusManager.isFocused(): the page is visible
    minScoreApplied   \* backend: GET /items/ honours its min_score parameter

vars == <<itemStatus, orderStatus, schedRunning, view, page, showPendingOnly,
          statusFilter, searchQuery, isScrapingStarted, cache, fetches, muts,
          awaiting, settled, tg, focused, minScoreApplied>>

backend == <<itemStatus, orderStatus, schedRunning>>
dashLocal == <<searchQuery, isScrapingStarted>>
local == <<page, showPendingOnly, statusFilter, searchQuery,
          isScrapingStarted>>

\* ------------------------------------------------ the backend (from the spec)
\* ai_score of an item: the second item is a strong opportunity, the first a
\* weaker one, the third is below the threshold, the others are not
\* analysed (null).
Score(i) == IF i = 1 THEN 65 ELSE IF i = 2 THEN 80 ELSE IF i = 3 THEN 50 ELSE 0

PendingIds(st) == {i \in ItemIds : st[i] = "pending"}

Rank(S, i) == Cardinality({j \in S : j <= i})

\* A backend that ignored page and per_page.
PageSliceAll(S, p, n) == S

\* The p-th page of n elements of S, in ascending id order.
PageSlice(S, p, n) == {i \in S : Rank(S, i) > (p - 1) * n /\ Rank(S, i) <= p * n}

\* GET /items/pending?page=p&per_page=n
PendingResp(st, p, n) ==
    [rows |-> {<<i, "pending">> : i \in PageSlice(PendingIds(st), p, n)},
     total |-> Cardinality(PendingIds(st)),
     pages |-> CeilDiv(Cardinality(PendingIds(st)), n),
     running |-> FALSE, completed |-> 0]

\* GET /items/?min_score=m&status=pending.  The spec lists GET /items as a
\* list endpoint and does not say what min_score does: the backend either
\* applies it or answers with every pending item, analysed or not.
OppResp(st, m) ==
    LET S == {i \in PendingIds(st) : minScoreApplied => Score(i) >= m}
    IN  [rows |-> {<<i, "pending">> : i \in S}, total |-> Cardinality(S),
         pages |-> IF S = {} THEN 0 ELSE 1,
         running |-> FALSE, completed |-> 0]

\* GET /orders/pending and GET /orders, page p of n
OrdersResp(os, pendingOnly, p, n) ==
    LET S == IF pendingOnly THEN {o \in OrderIds : os[o] # "completed"}
             ELSE OrderIds
    IN  [rows |-> {<<o, os[o]>> : o \in PageSlice(S, p, n)},
         total |-> Cardinality(S), pages |-> CeilDiv(Cardinality(S), n),
         running |-> FALSE, completed |-> 0]

\* The listings of the backend: the last one is sold, the others active.
ListingStatus(l) == IF l = NListings THEN "sold" ELSE "active"

\* GET /listings?page=p&per_page=n[&status=f]
ListingsResp(f, p, n) ==
    LET S == {l \in ListingIds : f = FilterAll \/ ListingStatus(l) = f}
    IN  [rows |-> {<<l, ListingStatus(l)>> : l \in PageSlice(S, p, n)},
         total |-> Cardinality(S), pages |-> CeilDiv(Cardinality(S), n),
         running |-> FALSE, completed |-> 0]

\* GET /analytics/dashboard
StatsResp(st, os) ==
    [rows |-> {}, total |-> Cardinality(PendingIds(st)), pages |-> 0,
     running |-> FALSE,
     completed |-> Cardinality({o \in OrderIds : os[o] = "completed"})]

\* GET /analytics/profit/daily?days=30: the profit of the orders completed.
ProfitResp(os) ==
    [rows |-> {}, total |-> 0, pages |-> 0, running |-> FALSE,
     completed |-> Cardinality({o \in OrderIds : os[o] = "completed"})]

\* GET /scheduler/status
SchedResp(run) ==
    [rows |-> {}, total |-> 0, pages |-> 0, running |-> run, completed |-> 0]

\* GET /scheduler/categories
CatResp ==
    [rows |-> {<<c, "preset">> : c \in CategoryIds},
     total |-> NCategories, pages |-> 0, running |-> FALSE, completed |-> 0]

\* The body the backend answers a GET of key k with, in the given state.
Respond(k, st, os, run) ==
    CASE k.kind = "pending-items" -> PendingResp(st, k.page, PerPageItems)
      [] k.kind = "opportunities" -> OppResp(st, MinScore)
      [] k.kind = "dashboard-stats" -> StatsResp(st, os)
      [] k.kind = "daily-profit" -> ProfitResp(os)
      [] k.kind = "orders" ->
            OrdersResp(os, k.filter = "pending", k.page, PerPageOrders)
      [] k.kind = "scheduler-status" -> SchedResp(run)
      [] k.kind = "listings" -> ListingsResp(k.filter, k.page, PerPageListings)
      [] OTHER -> CatResp

\* ------------------------------------------------------- the query cache
\* The backend state a GET is answered from.
Backend(st, os, run) == [items |-> st, orders |-> os, run |-> run]

\* A store is the cache with the GET requests on the wire, and the backend
\* state that answers the requests issued now.
Store(c, f, b) == [cache |-> c, fetches |-> f, be |-> b]

\* The least number that tells a new request from the requests of the same
\* content that carry the numbers in used.
FreshId(used) ==
    CHOOSE n \in 0..Cardinality(used) :
        n \notin used /\ \A m \in 0..(n - 1) : m \in used

\* A GET on the wire with the 2xx body the backend has for it: cur tells
\* whether it is the current fetch of its entry (a superseded one,
\* cur = FALSE, is still on the wire), tries counts the calls of the queryFn
\* that failed before this one, and id tells apart the GETs on the wire
\* with f that have the same key, tries and body.
NewFetch(k, b, t, f) ==
    LET d == Respond(k, b.items, b.orders, b.run)
    IN  [key |-> k, cur |-> TRUE, data |-> d, tries |-> t,
         id |-> FreshId({r.id : r \in {q \in f : /\ q.key = k
                                                 /\ q.data = d
                                                 /\ q.tries = t}})]

\* Start the queryFn of key k: one GET goes on the wire and becomes the
\* current fetch of the entry (a fetch that was current is superseded, and
\* a retry that was waiting is cancelled).  An entry without data goes back
\* to its loading state: the error of an earlier failure is cleared.
IssueFetch(s, k) ==
    Store([s.cache EXCEPT ![k] = [@ EXCEPT !.exists = TRUE, !.fetching = TRUE,
                                           !.err = s.cache[k].hasData /\ @,
                                           !.retryWait = 0]],
          {IF r.key = k THEN [r EXCEPT !.cur = FALSE] ELSE r : r \in s.fetches}
              \cup {NewFetch(k, s.be, 0, s.fetches)},
          s.be)

\* A useQuery that trusted whatever it finds cached (staleTime: Infinity).
ObserveKeyCached(s, k) ==
    IF s.cache[k].fetching \/ s.cache[k].hasData THEN s ELSE IssueFetch(s, k)

\* useQuery on mount, on a key change and on a refetchInterval tick: the
\* entry is stale (staleTime 0), so it is fetched, unless a fetch of the key
\* is outstanding, which the observer joins.
ObserveKey(s, k) == IF s.cache[k].fetching THEN s ELSE IssueFetch(s, k)

\* The refetch of an active query by invalidateQueries and by refetch():
\* an outstanding fetch of an entry that holds data is cancelled and replaced.
RefetchActive(s, k) ==
    IF s.cache[k].fetching /\ ~s.cache[k].hasData THEN s ELSE IssueFetch(s, k)

\* An invalidation that threw the cached data away (as resetQueries would).
InvalidateKindReset(s, kind, active) ==
    Store([k \in Keys |->
              IF s.cache[k].exists /\ k.kind = kind
              THEN [s.cache[k] EXCEPT !.invalidated = TRUE, !.hasData = FALSE,
                                      !.data = NoData]
              ELSE s.cache[k]],
          s.fetches, s.be)

\* queryClient.invalidateQueries({ queryKey: [kind] }): every entry whose key
\* starts with kind is marked, and the mounted ones are fetched again.
InvalidateKind(s, kind, active) ==
    LET marked == Store([k \in Keys |->
                            IF s.cache[k].exists /\ k.kind = kind
                            THEN [s.cache[k] EXCEPT !.invalidated = TRUE]
                            ELSE s.cache[k]],
                        s.fetches, s.be)
        ks == {k \in active : k.kind = kind /\ s.cache[k].exists}
    IN  IF ks = {} THEN marked ELSE RefetchActive(marked, CHOOSE k \in ks : TRUE)

RECURSIVE InvalidateAll(_, _, _)
InvalidateAll(s, kinds, active) ==
    IF kinds = <<>> THEN s
    ELSE InvalidateAll(InvalidateKind(s, Head(kinds), active), Tail(kinds), active)

RECURSIVE ObserveAll(_, _)
ObserveAll(s, ks) ==
    IF ks = <<>> THEN s ELSE ObserveAll(ObserveKey(s, Head(ks)), Tail(ks))

\* The useQuery calls of a view, in source order, for its local state.
ViewQueries(v, pg, spo, sf) ==
    CASE v = "Dashboard" -> <<StatsKey, ProfitKey>>
      [] v = "Items" -> <<PendingKey(pg)>>
      [] v = "Opportunities" -> <<OppKey>>
      [] v = "Orders" -> <<OrdersKey(pg, spo)>>
      [] v = "Listings" -> <<ListingsKey(pg, sf)>>
      [] v = "Settings" -> <<SchedKey, CatKey>>
      [] OTHER -> <<>>

ActiveKeys(v, pg, spo, sf) ==
    {ViewQueries(v, pg, spo, sf)[n] :
        n \in 1..Len(ViewQueries(v, pg, spo, sf))}

\* A fetch of key k is outstanding in the cache c with the GETs f: its GET
\* is on the wire, or its retry waits for its delay.
FetchOutstanding(c, f, k) ==
    /\ c[k].fetching
    /\ \/ \E r \in f : r.key = k /\ r.cur
       \/ c[k].retryWait > 0

\* The store of the present state.
Now == Store(cache, fetches, Backend(itemStatus, orderStatus, schedRunning))

\* What a view renders of key k: nothing while isLoading or without data.
Shown(k) == IF cache[k].hasData THEN Ids(cache[k].data) ELSE {}
IsLoading(k) == cache[k].fetching /\ ~cache[k].hasData

\* ------------------------------------------------------------- mutations
MutNames == {"Items.approve", "Items.reject",
             "Opportunities.analyze", "Opportunities.approve",
             "Opportunities.reject", "Orders.complete",
             "Settings.start", "Settings.stop", "Settings.testTelegram",
             "Settings.scrapeCategory", "Dashboard.scrape"}

\* The endpoint a useMutation posts to.
ActionOf(name) ==
    CASE name \in {"Items.approve", "Opportunities.approve"} -> "approve"
      [] name \in {"Items.reject", "Opportunities.reject"} -> "reject"
      [] name = "Opportunities.analyze" -> "analyze-pending"
      [] name = "Orders.complete" -> "complete"
      [] name = "Settings.start" -> "scheduler-start"
      [] name = "Settings.stop" -> "scheduler-stop"
      [] name = "Settings.testTelegram" -> "test-telegram"
      [] name = "Settings.scrapeCategory" -> "scrape-category"
      [] OTHER -> "scraper-start"

\* The invalidateQueries calls of each onSuccess, in source order.
OnSuccessInvalidates(name) ==
    CASE name = "Items.approve" -> <<"pending-items", "dashboard-stats">>
      [] name = "Items.reject" -> <<"pending-items">>
      [] name = "Opportunities.analyze" -> <<"opportunities", "pending-items">>
      [] name = "Opportunities.approve" -> <<"opportunities", "pending-items">>
      [] name = "Opportunities.reject" -> <<"opportunities", "pending-items">>
      [] name = "Orders.complete" -> <<"orders", "dashboard-stats">>
      [] name = "Settings.start" -> <<"scheduler-status">>
      [] name = "Settings.stop" -> <<"scheduler-status">>
      [] name = "Settings.scrapeCategory" -> <<"pending-items">>
      [] OTHER -> <<>>

\* A mutation that invalidated on failure as it does on success.
SettleInvalidatesAlways(name, ok) == OnSuccessInvalidates(name)

\* What a settling mutation invalidates: onSuccess does, and there is no
\* onError or onSettled that touches the cache.
SettleInvalidates(name, ok) == IF ok THEN OnSuccessInvalidates(name) ELSE <<>>

\* Whether a settling mutation shows an alert() to the user.
SettleAlerts(name, ok) ==
    IF ok THEN name \in {"Opportunities.analyze", "Settings.testTelegram",
                         "Settings.scrapeCategory"}
    ELSE name = "Settings.testTelegram"

\* The useMutation hooks whose onSuccess returns the promise of
\* invalidateQueries: the mutation stays pending until the refetch of the
\* mounted queries it invalidated has ended.
AwaitsRefetch(name) == name \in {"Settings.start", "Settings.stop"}

\* The queries whose refetch the onSuccess of name waits for.
AwaitedKeys(name) ==
    {k \in Keys : \E n \in 1..Len(OnSuccessInvalidates(name)) :
                      OnSuccessInvalidates(name)[n] = k.kind}

\* An isPending that a failure left set.
IsPendingOrFailed(name) ==
    \/ \E m \in muts : m.name = name /\ m.observed
    \/ name \in awaiting
    \/ settled.name = name /\ ~settled.ok

\* mutation.isPending of the mounted observer: the observer follows the
\* mutation it dispatched last, which is pending while its request is on
\* the wire and while the promise its onSuccess returned is open.
IsPending(name) ==
    \/ \E m \in muts : m.name = name /\ m.observed
    \/ name \in awaiting

NoSettled == [name |-> "none", ok |-> FALSE, alert |-> FALSE]

\* The useState defaults of TelegramApp, with no call on the wire.
TgInitial ==
    [activeTab |-> "opportunities", opportunities |-> <<>>,
     searchQuery |-> <<>>, searchResults |-> FALSE, loading |-> FALSE,
     stats |-> FALSE, focus |-> FALSE, calls |-> {}]

\* ------------------------------------------------------------------- Init
InitState ==
    /\ itemStatus = [i \in ItemIds |-> "pending"]
    /\ orderStatus = [o \in OrderIds |-> "shipped_to_buyer"]
    /\ schedRunning = FALSE
    /\ view = "none"
    /\ page = 1
    /\ showPendingOnly = TRUE
    /\ statusFilter = FilterAll
    /\ searchQuery = <<>>
    /\ isScrapingStarted = FALSE
    /\ cache = [k \in Keys |-> NoEntry]
    /\ fetches = {}
    /\ muts = {}
    /\ awaiting = {}
    /\ settled = NoSettled
    /\ tg = TgInitial
    /\ focused = TRUE

\* The application starts against a backend that applies min_score or one
\* that ignores it.
Init == InitState /\ minScoreApplied \in BOOLEAN

\* The start of the sessions that never send GET /items/, the one request
\* whose answer depends on min_score.
InitNoItemsList == InitState /\ minScoreApplied = TRUE

\* ---------------------------------------------------------------- routing
\* The router mounts view v: the view left behind loses its component state
\* and its mutation observers, the new one starts from its useState
\* defaults and subscribes to its queries.  When the view left behind is
\* the mini-app, its useState values are gone and the responses of its calls
\* find nothing to set.
Navigate(v) ==
    /\ v # view
    /\ LET s == ObserveAll(Now, ViewQueries(v, 1, TRUE, FilterAll))
       IN  /\ Cardinality(s.fetches) <= MaxFetches
           /\ cache' = s.cache
           /\ fetches' = s.fetches
    /\ view' = v
    /\ page' = 1
    /\ showPendingOnly' = TRUE
    /\ statusFilter' = FilterAll
    /\ searchQuery' = <<>>
    /\ isScrapingStarted' = FALSE
    /\ muts' = {[m EXCEPT !.observed = FALSE] : m \in muts}
    /\ awaiting' = {}
    /\ tg' = TgInitial
    /\ UNCHANGED <<backend, settled, focused, minScoreApplied>>

\* ----------------------------------------------------------------- Items
\* setPage of the Items view followed by the query of the new key.
ItemsSetPage(p) ==
    /\ page' = p
    /\ LET s == ObserveKey(Now, PendingKey(p))
       IN  /\ Cardinality(s.fetches) <= MaxFetches
           /\ cache' = s.cache
           /\ fetches' = s.fetches
    /\ UNCHANGED <<backend, view, showPendingOnly, statusFilter, dashLocal, muts, awaiting,
                 settled, tg,
                   focused, minScoreApplied>>

\* The pagination row is rendered when data && data.pages > 1.
ItemsPagerShown ==
    /\ view = "Items"
    /\ cache[PendingKey(page)].hasData
    /\ cache[PendingKey(page)].data.pages > 1

ItemsPrevPage ==
    /\ ItemsPagerShown
    /\ page # 1
    /\ ItemsSetPage(Max(1, page - 1))

ItemsNextPage ==
    /\ ItemsPagerShown
    /\ page # cache[PendingKey(page)].data.pages
    /\ ItemsSetPage(Min(cache[PendingKey(page)].data.pages, page + 1))

\* mutation.mutate(arg) of the useMutation called name: a new request goes
\* on the wire and the observer follows it instead of an earlier one.
Dispatch(name, arg, qs) ==
    /\ Cardinality(muts) < MaxMuts
    /\ muts' = {IF m.name = name THEN [m EXCEPT !.observed = FALSE] ELSE m :
                    m \in muts}
                \cup {[name |-> name, arg |-> arg, queries |-> qs,
                       observed |-> TRUE,
                       id |-> FreshId({m.id : m \in {q \in muts :
                                                       /\ q.name = name
                                                       /\ q.arg = arg
                                                       /\ q.queries = qs}})]}
    /\ awaiting' = awaiting \ {name}
    /\ UNCHANGED <<backend, view, local, cache, fetches, settled, tg,
                   focused, minScoreApplied>>

\* ItemCard "Approva": onApprove(item.id), the button is never disabled.
ItemsApprove(i) ==
    /\ view = "Items"
    /\ i \in Shown(PendingKey(page))
    /\ Dispatch("Items.approve", i, <<>>)

\* ItemCard "Rifiuta": onReject(item.id), the button is never disabled.
ItemsReject(i) ==
    /\ view = "Items"
    /\ i \in Shown(PendingKey(page))
    /\ Dispatch("Items.reject", i, <<>>)

\* --------------------------------------------------------- Opportunities
\* A grid that showed every item of the response.
AnalyzedItemsAll == Shown(OppKey)

\* analyzedItems: the fetched items with ai_score && ai_score >= 60; a
\* score of 0 stands for null and for 0, both falsy.
AnalyzedItems == {i \in Shown(OppKey) : Score(i) # 0 /\ Score(i) >= MinScore}

OppGridShown == view = "Opportunities" /\ ~IsLoading(OppKey)

OppApprove(i) ==
    /\ OppGridShown
    /\ i \in AnalyzedItems
    /\ Dispatch("Opportunities.approve", i, <<>>)

OppReject(i) ==
    /\ OppGridShown
    /\ i \in AnalyzedItems
    /\ Dispatch("Opportunities.reject", i, <<>>)

\* "Analizza con AI": disabled={analyzeMutation.isPending}
OppAnalyze ==
    /\ view = "Opportunities"
    /\ ~IsPending("Opportunities.analyze")
    /\ Dispatch("Opportunities.analyze", 0, <<>>)

\* "Aggiorna": refetch()
OppRefetch ==
    /\ view = "Opportunities"
    /\ LET s == RefetchActive(Now, OppKey)
       IN  /\ Cardinality(s.fetches) <= MaxFetches
           /\ cache' = s.cache
           /\ fetches' = s.fetches
    /\ UNCHANGED <<backend, view, local, muts, awaiting, settled, tg,
                   focused, minScoreApplied>>

\* ----------------------------------------------------------------- Orders
\* if (isLoading) return the spinner: the tabs, the cards and the pager are
\* rendered otherwise.
OrdersShown == view = "Orders" /\ ~IsLoading(OrdersKey(page, showPendingOnly))

\* "Da gestire" / "Tutti": setShowPendingOnly(b), then the query of the new key.
OrdersSetShowPending(b) ==
    /\ OrdersShown
    /\ b # showPendingOnly
    /\ showPendingOnly' = b
    /\ LET s == ObserveKey(Now, OrdersKey(page, b))
       IN  /\ Cardinality(s.fetches) <= MaxFetches
           /\ cache' = s.cache
           /\ fetches' = s.fetches
    /\ UNCHANGED <<backend, view, page, statusFilter, dashLocal, muts, awaiting, settled,
                 tg,
                   focused, minScoreApplied>>

\* "Completa": rendered for order.status === 'shipped_to_buyer', never disabled.
OrdersComplete(o) ==
    /\ OrdersShown
    /\ cache[OrdersKey(page, showPendingOnly)].hasData
    /\ <<o, "shipped_to_buyer">>
           \in cache[OrdersKey(page, showPendingOnly)].data.rows
    /\ Dispatch("Orders.complete", o, <<>>)

\* The pagination row is rendered when data && data.total > 20.
OrdersPagerShown ==
    /\ OrdersShown
    /\ cache[OrdersKey(page, showPendingOnly)].hasData
    /\ cache[OrdersKey(page, showPendingOnly)].data.total > PerPageOrders

\* setPage of the Orders view followed by the query of the new key.
OrdersSetPage(p) ==
    /\ page' = p
    /\ LET s == ObserveKey(Now, OrdersKey(p, showPendingOnly))
       IN  /\ Cardinality(s.fetches) <= MaxFetches
           /\ cache' = s.cache
           /\ fetches' = s.fetches
    /\ UNCHANGED <<backend, view, showPendingOnly, statusFilter, dashLocal,
                   muts, awaiting, settled, tg,
                   focused, minScoreApplied>>

\* ChevronLeft: disabled={page === 1}, setPage((p) => Math.max(1, p - 1))
OrdersPrevPage ==
    /\ OrdersPagerShown
    /\ page # 1
    /\ OrdersSetPage(Max(1, page - 1))

\* ChevronRight: disabled={data.orders.length < 20}, setPage((p) => p + 1)
OrdersNextPage ==
    /\ OrdersPagerShown
    /\ ~(Cardinality(cache[OrdersKey(page, showPendingOnly)].data.rows)
             < PerPageOrders)
    /\ OrdersSetPage(page + 1)

\* --------------------------------------------------------------- Listings
\* The branch of its JSX the Listings view is in: the spinner while
\* isLoading, the "Nessun listing" box when data?.listings.length === 0, the
\* table otherwise (also without data); there is no error branch.
\* A view without the empty box: the table whenever it is not loading.
ListingsRenderOfNoEmpty(e) ==
    IF e.fetching /\ ~e.hasData THEN "loading" ELSE "table"

ListingsRenderOf(e) ==
    IF e.fetching /\ ~e.hasData THEN "loading"
    ELSE IF e.hasData /\ e.data.rows = {} THEN "empty"
    ELSE "table"

ListingsRender ==
    IF view = "Listings"
    THEN ListingsRenderOf(cache[ListingsKey(page, statusFilter)])
    ELSE "none"

\* A status select that went back to the first page.
ListingsSetFilterResetPage(f) ==
    /\ view = "Listings"
    /\ ListingsRender # "loading"
    /\ f # statusFilter
    /\ statusFilter' = f
    /\ page' = 1
    /\ LET s == ObserveKey(Now, ListingsKey(1, f))
       IN  /\ Cardinality(s.fetches) <= MaxFetches
           /\ cache' = s.cache
           /\ fetches' = s.fetches
    /\ UNCHANGED <<backend, view, showPendingOnly, dashLocal, muts, awaiting, settled,
                   tg,
                   focused, minScoreApplied>>

\* The status <select>: setStatusFilter(e.target.value || undefined), then
\* the query of the new key; setPage is not called.
ListingsSetFilter(f) ==
    /\ view = "Listings"
    /\ ListingsRender # "loading"
    /\ f # statusFilter
    /\ statusFilter' = f
    /\ LET s == ObserveKey(Now, ListingsKey(page, f))
       IN  /\ Cardinality(s.fetches) <= MaxFetches
           /\ cache' = s.cache
           /\ fetches' = s.fetches
    /\ UNCHANGED <<backend, view, page, showPendingOnly, dashLocal, muts, awaiting,
                   settled, tg,
                   focused, minScoreApplied>>

\* The pagination row is rendered when data && data.total > 20.
ListingsPagerShown ==
    /\ ListingsRender \in {"empty", "table"}
    /\ cache[ListingsKey(page, statusFilter)].hasData
    /\ cache[ListingsKey(page, statusFilter)].data.total > PerPageListings

\* setPage of the Listings view followed by the query of the new key.
ListingsSetPage(p) ==
    /\ page' = p
    /\ LET s == ObserveKey(Now, ListingsKey(p, statusFilter))
       IN  /\ Cardinality(s.fetches) <= MaxFetches
           /\ cache' = s.cache
           /\ fetches' = s.fetches
    /\ UNCHANGED <<backend, view, showPendingOnly, statusFilter, dashLocal,
                   muts, awaiting, settled, tg,
                   focused, minScoreApplied>>

\* ChevronLeft: disabled={page === 1}, setPage((p) => Math.max(1, p - 1))
ListingsPrevPage ==
    /\ ListingsPagerShown
    /\ page # 1
    /\ ListingsSetPage(Max(1, page - 1))

\* ChevronRight: disabled={data.listings.length < 20}, setPage((p) => p + 1)
ListingsNextPage ==
    /\ ListingsPagerShown
    /\ ~(Cardinality(cache[ListingsKey(page, statusFilter)].data.rows)
             < PerPageListings)
    /\ ListingsSetPage(page + 1)

\* --------------------------------------------------------------- Settings
\* schedulerStatus?.running of the cached status.
SchedShownRunning == cache[SchedKey].hasData /\ cache[SchedKey].data.running

\* "Avvia": rendered when the cached status is not running,
\* disabled={startMutation.isPending}
SettingsStart ==
    /\ view = "Settings"
    /\ ~SchedShownRunning
    /\ ~IsPending("Settings.start")
    /\ Dispatch("Settings.start", 0, <<>>)

\* "Stop": rendered when the cached status is running,
\* disabled={stopMutation.isPending}
SettingsStop ==
    /\ view = "Settings"
    /\ SchedShownRunning
    /\ ~IsPending("Settings.stop")
    /\ Dispatch("Settings.stop", 0, <<>>)

\* "Invia messaggio di test": disabled={testTelegramMutation.isPending}
SettingsTestTelegram ==
    /\ view = "Settings"
    /\ ~IsPending("Settings.testTelegram")
    /\ Dispatch("Settings.testTelegram", 0, <<>>)

\* A category button: disabled={scrapeCategoryMutation.isPending}
SettingsScrapeCategory(c) ==
    /\ view = "Settings"
    /\ c \in Shown(CatKey)
    /\ ~IsPending("Settings.scrapeCategory")
    /\ Dispatch("Settings.scrapeCategory", c, <<>>)

\* -------------------------------------------------------------- Dashboard
\* The texts of up to n characters the modelled user types.
RECURSIVE Strings(_)
Strings(n) ==
    IF n = 0 THEN {<<>>}
    ELSE Strings(n - 1) \cup {Append(t, c) : t \in Strings(n - 1), c \in {"a", ",", " "}}

\* String.prototype.split(',')
RECURSIVE Split(_)
Split(t) ==
    IF \A n \in 1..Len(t) : t[n] # ","
    THEN <<t>>
    ELSE LET c == CHOOSE n \in 1..Len(t) :
                      t[n] = "," /\ \A m \in 1..(n - 1) : t[m] # ","
         IN  <<SubSeq(t, 1, c - 1)>> \o Split(SubSeq(t, c + 1, Len(t)))

\* String.prototype.trim()
RECURSIVE Trim(_)
Trim(t) ==
    IF t = <<>> THEN t
    ELSE IF Head(t) = " " THEN Trim(Tail(t))
    ELSE IF t[Len(t)] = " " THEN Trim(SubSeq(t, 1, Len(t) - 1))
    ELSE t

NonEmpty(q) == q # <<>>

\* The list without its filter: searchQuery.split(',').map(q => q.trim())
ScrapeQueriesUnfiltered(t) == [n \in 1..Len(Split(t)) |-> Trim(Split(t)[n])]

\* searchQuery.split(',').map(q => q.trim()).filter(q => q)
ScrapeQueries(t) ==
    SelectSeq([n \in 1..Len(Split(t)) |-> Trim(Split(t)[n])], NonEmpty)

DashboardShown == view = "Dashboard" /\ ~IsLoading(StatsKey)

\* The search box: onChange={(e) => setSearchQuery(e.target.value)}
DashboardType(t) ==
    /\ DashboardShown
    /\ t # searchQuery
    /\ searchQuery' = t
    /\ UNCHANGED <<backend, view, page, showPendingOnly, statusFilter,
                 isScrapingStarted,
                   cache, fetches, muts, awaiting, settled, tg,
                   focused, minScoreApplied>>

\* "Cerca": disabled={scrapeMutation.isPending || !searchQuery};
\* handleStartScraping dispatches only a non-empty list of queries.
DashboardScrape ==
    /\ DashboardShown
    /\ ~IsPending("Dashboard.scrape")
    /\ searchQuery # <<>>
    /\ Len(ScrapeQueries(searchQuery)) > 0
    /\ Dispatch("Dashboard.scrape", 0, ScrapeQueries(searchQuery))

\* setTimeout(() => setIsScrapingStarted(false), 5000)
ScrapeBannerTimeout ==
    /\ isScrapingStarted
    /\ isScrapingStarted' = FALSE
    /\ UNCHANGED <<backend, view, page, showPendingOnly, statusFilter,
                 searchQuery,
                   cache, fetches, muts, awaiting, settled, tg,
                   focused, minScoreApplied>>

\* ---------------------------------------------------------------- polling
\* Views without a refetchInterval.
PolledKeysNever(v) == {}

\* A refetchInterval that outlived its observer.
PolledKeysAlways(v) == {StatsKey, SchedKey}

\* refetchInterval: 30000 on dashboard-stats, 5000 on scheduler-status.
PolledKeys(v) ==
    CASE v = "Dashboard" -> {StatsKey}
      [] v = "Settings" -> {SchedKey}
      [] OTHER -> {}

\* The interval callback: the query is fetched only while the page is
\* visible (neither query sets refetchIntervalInBackground), joining a fetch
\* that is outstanding.
PollTick(k) ==
    /\ k \in PolledKeys(view)
    /\ focused
    /\ LET s == ObserveKey(Now, k)
       IN  /\ Cardinality(s.fetches) <= MaxFetches
           /\ cache' = s.cache
           /\ fetches' = s.fetches
    /\ UNCHANGED <<backend, view, local, muts, awaiting, settled, tg,
                   focused, minScoreApplied>>

\* The page is hidden or its window loses the focus.
WindowBlur ==
    /\ focused
    /\ focused' = FALSE
    /\ UNCHANGED <<backend, view, local, cache, fetches, muts, awaiting, settled,
                   tg, minScoreApplied>>

\* The page is visible again.  refetchOnWindowFocus is an option of the
\* QueryClient, which is built outside the sources: with it (the library's
\* default) every mounted query is fetched like on mount, without it nothing
\* is fetched.  A retry that waited for the focus goes on (RetryFetch).
WindowFocus ==
    /\ ~focused
    /\ focused' = TRUE
    /\ \E refetch \in BOOLEAN :
          LET s == IF refetch
                   THEN ObserveAll(Now, ViewQueries(view, page, showPendingOnly,
                                                    statusFilter))
                   ELSE Now
          IN  /\ Cardinality(s.fetches) <= MaxFetches
              /\ cache' = s.cache
              /\ fetches' = s.fetches
    /\ UNCHANGED <<backend, view, local, muts, awaiting, settled, tg,
                   minScoreApplied>>

\* ------------------------------------------- the backend (from the spec)
\* Whether the backend accepts the transition a request asks for; an invalid
\* transition is a ClientError (4xx).
CanApply(action, arg) ==
    CASE action \in {"approve", "reject"} -> itemStatus[arg] = "pending"
      [] action = "complete" -> orderStatus[arg] = "shipped_to_buyer"
      [] OTHER -> TRUE

ItemsAfter(action, arg, ok) ==
    CASE ok /\ action = "approve" -> [itemStatus EXCEPT ![arg] = "approved"]
      [] ok /\ action = "reject" -> [itemStatus EXCEPT ![arg] = "rejected"]
      [] OTHER -> itemStatus

OrdersAfter(action, arg, ok) ==
    IF ok /\ action = "complete" THEN [orderStatus EXCEPT ![arg] = "completed"]
    ELSE orderStatus

SchedAfter(action, ok) ==
    CASE ok /\ action = "scheduler-start" -> TRUE
      [] ok /\ action = "scheduler-stop" -> FALSE
      [] OTHER -> schedRunning

\* ------------------------------------------------- responses reaching the client
\* The entry after the response of its current fetch: a success replaces the
\* data and clears the invalidation, a failure keeps the data and sets the
\* error.
Applied(e, r, ok) ==
    IF ok
    THEN [e EXCEPT !.hasData = TRUE, !.data = r.data, !.invalidated = FALSE,
                   !.fetching = FALSE, !.err = FALSE]
    ELSE [e EXCEPT !.fetching = FALSE, !.err = TRUE]

\* The mutations of a that wait for the fetch of one of the keys ks.
Awaiters(a, ks) == {n \in a : AwaitedKeys(n) \cap ks # {}}

\* The keys whose current fetch a step from the cache c and the GETs f to
\* the cache d and the GETs g has cancelled and replaced: its GET on the
\* wire is superseded, or its waiting retry is dropped.
Cancelled(c, f, d, g) ==
    {r.key : r \in {q \in f : q.cur /\ q \notin g}}
        \cup {k \in Keys : c[k].retryWait > 0 /\ d[k].retryWait = 0}

\* A cache keyed by the resource kind alone: the outcome of GET r lands in
\* every entry of its kind, whatever the page and the filter.
DeliverFetchAllPages(r, ok) ==
    /\ r \in fetches
    /\ fetches' = fetches \ {r}
    /\ cache' = IF r.cur
                THEN [k \in Keys |->
                         IF k.kind = r.key.kind /\ cache[k].exists
                         THEN Applied(cache[k], r, ok) ELSE cache[k]]
                ELSE cache
    /\ awaiting' = IF r.cur THEN awaiting \ Awaiters(awaiting, {r.key})
                   ELSE awaiting
    /\ UNCHANGED <<backend, view, local, muts, settled, tg,
                   focused, minScoreApplied>>

\* GET r ends, with its 2xx body or with a failure (transport error, 4xx,
\* 5xx) that the cache does not answer by another call of the queryFn: the
\* outcome is applied when r is still the current fetch of its entry, and
\* dropped when r was superseded; a promise of invalidateQueries that
\* waited for the fetch is resolved.  How many failures the cache answers
\* by a retry is an option of the QueryClient, which is built outside
\* these sources: a failure may be the last one after any number of tries.
DeliverFetch(r, ok) ==
    /\ r \in fetches
    /\ fetches' = fetches \ {r}
    /\ cache' = IF r.cur
                THEN [cache EXCEPT ![r.key] = Applied(@, r, ok)]
                ELSE cache
    /\ awaiting' = IF r.cur THEN awaiting \ Awaiters(awaiting, {r.key})
                   ELSE awaiting
    /\ UNCHANGED <<backend, view, local, muts, settled, tg,
                   focused, minScoreApplied>>

\* The current GET r of a mounted query fails and the cache answers by a
\* retry (the retry option of a query, three times by default): the GET
\* leaves the wire and the retry waits for its delay (retryDelay); the
\* entry stays as it is, fetching.  A superseded GET is not retried, its
\* retryer was cancelled; nor is the GET of a query that has lost its
\* observer: their failure is the end of the fetch (DeliverFetch).
FailFetch(r) ==
    /\ r \in fetches
    /\ r.cur
    /\ r.key \in ActiveKeys(view, page, showPendingOnly, statusFilter)
    /\ r.tries < MaxRetries
    /\ fetches' = fetches \ {r}
    /\ cache' = [cache EXCEPT ![r.key].retryWait = r.tries + 1]
    /\ UNCHANGED <<backend, view, local, muts, awaiting, settled, tg,
                   focused, minScoreApplied>>

\* The delay of the retry of key k is over.  When the query is mounted (it
\* stayed so, or an observer came back and joined the fetch) the queryFn is
\* called once more and its GET goes on the wire, answered from the backend
\* as it is now.  When the query lost its observer during the wait the
\* retry was cancelled: the fetch ends with the error of the failed call.
\* While the page is hidden the retryer pauses, and goes on when the page
\* is visible again.
RetryFetch(k) ==
    /\ cache[k].retryWait > 0
    /\ focused
    /\ LET active == k \in ActiveKeys(view, page, showPendingOnly, statusFilter)
       IN  /\ fetches' =
                  IF active
                  THEN fetches \cup {NewFetch(k, Backend(itemStatus, orderStatus,
                                                         schedRunning),
                                              cache[k].retryWait, fetches)}
                  ELSE fetches
           /\ Cardinality(fetches') <= MaxFetches
           /\ cache' = IF active THEN [cache EXCEPT ![k].retryWait = 0]
                       ELSE [cache EXCEPT ![k] = [@ EXCEPT !.fetching = FALSE, !.err = TRUE,
                                                            !.retryWait = 0]]
           /\ awaiting' = IF active THEN awaiting
                          ELSE awaiting \ Awaiters(awaiting, {k})
    /\ UNCHANGED <<backend, view, local, muts, settled, tg,
                   focused, minScoreApplied>>

\* A dispatcher that retried: a failed mutation settles as it does, and its
\* request is sent again.
DeliverMutationRetry(m, ok) ==
    /\ m \in muts
    /\ ok => CanApply(ActionOf(m.name), m.arg)
    /\ itemStatus' = ItemsAfter(ActionOf(m.name), m.arg, ok)
    /\ orderStatus' = OrdersAfter(ActionOf(m.name), m.arg, ok)
    /\ schedRunning' = SchedAfter(ActionOf(m.name), ok)
    /\ muts' = IF ok THEN muts \ {m} ELSE muts
    /\ LET s == InvalidateAll(Store(cache, fetches,
                                    Backend(itemStatus', orderStatus',
                                            schedRunning')),
                              SettleInvalidates(m.name, ok),
                              ActiveKeys(view, page, showPendingOnly, statusFilter))
       IN  /\ Cardinality(s.fetches) <= MaxFetches
           /\ cache' = s.cache
           /\ fetches' = s.fetches
    /\ awaiting' =
           (awaiting \ Awaiters(awaiting, Cancelled(cache, fetches, cache', fetches')))
               \cup {n \in {m.name} :
                        /\ ok /\ m.observed /\ AwaitsRefetch(n)
                        /\ \E k \in AwaitedKeys(n) \cap
                                     ActiveKeys(view, page, showPendingOnly,
                                                statusFilter) :
                               cache'[k].fetching}
    /\ isScrapingStarted' =
           IF m.name = "Dashboard.scrape" /\ ok /\ m.observed
           THEN TRUE ELSE isScrapingStarted
    /\ settled' = [name |-> m.name, ok |-> ok,
                   alert |-> SettleAlerts(m.name, ok)]
    /\ UNCHANGED <<view, page, showPendingOnly, statusFilter, searchQuery, tg,
                   focused, minScoreApplied>>

\* The request of mutation m is answered: the backend has applied the
\* transition and answered 2xx, or it has failed and changed nothing;
\* onSuccess / onError of its useMutation run, and the observer that follows
\* m leaves isPending, unless onSuccess returned the promise of the refetch
\* it started: then it leaves isPending when that fetch ends or is
\* cancelled by a later invalidation.
DeliverMutation(m, ok) ==
    /\ m \in muts
    /\ ok => CanApply(ActionOf(m.name), m.arg)
    /\ itemStatus' = ItemsAfter(ActionOf(m.name), m.arg, ok)
    /\ orderStatus' = OrdersAfter(ActionOf(m.name), m.arg, ok)
    /\ schedRunning' = SchedAfter(ActionOf(m.name), ok)
    /\ muts' = muts \ {m}
    /\ LET s == InvalidateAll(Store(cache, fetches,
                                    Backend(itemStatus', orderStatus',
                                            schedRunning')),
                              SettleInvalidates(m.name, ok),
                              ActiveKeys(view, page, showPendingOnly, statusFilter))
       IN  /\ Cardinality(s.fetches) <= MaxFetches
           /\ cache' = s.cache
           /\ fetches' = s.fetches
    /\ awaiting' =
           (awaiting \ Awaiters(awaiting, Cancelled(cache, fetches, cache', fetches')))
               \cup {n \in {m.name} :
                        /\ ok /\ m.observed /\ AwaitsRefetch(n)
                        /\ \E k \in AwaitedKeys(n) \cap
                                     ActiveKeys(view, page, showPendingOnly,
                                                statusFilter) :
                               cache'[k].fetching}
    /\ isScrapingStarted' =
           IF m.name = "Dashboard.scrape" /\ ok /\ m.observed
           THEN TRUE ELSE isScrapingStarted
    /\ settled' = [name |-> m.name, ok |-> ok,
                   alert |-> SettleAlerts(m.name, ok)]
    /\ UNCHANGED <<view, page, showPendingOnly, statusFilter, searchQuery, tg,
                   focused, minScoreApplied>>

\* ------------------------------------------------- the Telegram mini-app
PerPageTelegram == 20

\* The elements of a set of ids as a sequence in ascending order.
RECURSIVE Ascending(_)
Ascending(S) ==
    IF S = {} THEN <<>>
    ELSE LET lo == CHOOSE i \in S : \A j \in S : i <= j
         IN  <<lo>> \o Ascending(S \ {lo})

\* GET /items/?min_score=m&per_page=n: the items of every status, those
\* that are at least that good when the backend applies min_score, first
\* page.
TgListResp(st, m, n) ==
    LET S == {i \in ItemIds : /\ st[i] # "deleted"
                              /\ minScoreApplied => Score(i) >= m}
    IN  Ascending(PageSlice(S, 1, n))

\* Array.prototype.sort((a, b) => b.score - a.score): a stable sort into
\* non-increasing score.
RECURSIVE InsertByScore(_, _)
InsertByScore(q, i) ==
    IF q = <<>> THEN <<i>>
    ELSE IF Score(Head(q)) >= Score(i) THEN <<Head(q)>> \o InsertByScore(Tail(q), i)
    ELSE <<i>> \o q

RECURSIVE SortByScore(_)
SortByScore(q) ==
    IF q = <<>> THEN <<>>
    ELSE InsertByScore(SortByScore(SubSeq(q, 1, Len(q) - 1)), q[Len(q)])

\* An async call of the mini-app that awaits its fetch.  latest records that
\* no later call of the same function has been started since.
TgStart(t, op, data) ==
    [t EXCEPT !.calls = {IF r.op = op THEN [r EXCEPT !.latest = FALSE] ELSE r :
                             r \in t.calls}
                        \cup {[op |-> op, data |-> data, latest |-> TRUE]}]

\* loadOpportunities up to its await: setLoading(true), then the GET.
LoadOpportunitiesStart(t) ==
    TgStart([t EXCEPT !.loading = TRUE], "load",
            TgListResp(itemStatus, MinScore, PerPageTelegram))

\* loadStats up to its await.
LoadStatsStart(t) == TgStart(t, "stats", <<>>)

\* searchPrice up to its await: setLoading(true), then the POST.
SearchPriceStart(t) == TgStart([t EXCEPT !.loading = TRUE], "search", <<>>)

TgUnchanged ==
    UNCHANGED <<backend, page, showPendingOnly, statusFilter, dashLocal, cache,
                fetches,
                muts, awaiting, settled,
                   focused, minScoreApplied>>

\* The route /tg mounts TelegramApp: useEffect runs loadOpportunities() and
\* loadStats().  The view left behind loses its component state and its
\* observers; the query cache and the requests on the wire stay.
TgMount ==
    /\ view # "Telegram"
    /\ view' = "Telegram"
    /\ tg' = LoadStatsStart(LoadOpportunitiesStart(TgInitial))
    /\ page' = 1
    /\ showPendingOnly' = TRUE
    /\ statusFilter' = FilterAll
    /\ searchQuery' = <<>>
    /\ isScrapingStarted' = FALSE
    /\ muts' = {[m EXCEPT !.observed = FALSE] : m \in muts}
    /\ awaiting' = {}
    /\ UNCHANGED <<backend, cache, fetches, settled, focused, minScoreApplied>>

\* The loading overlay (fixed inset-0 z-50) covers the page while loading,
\* so a pointer reaches a control only when loading is false.
TgPointer == view = "Telegram" /\ ~tg.loading

\* The refresh button of the opportunities tab: onClick={loadOpportunities}
TgRefresh ==
    /\ TgPointer
    /\ tg.activeTab = "opportunities"
    /\ Cardinality(tg.calls) < MaxFetches
    /\ tg' = LoadOpportunitiesStart(tg)
    /\ UNCHANGED view
    /\ TgUnchanged

\* A tab button: setActiveTab(t); the search input exists on its tab only.
TgSetTab(t) ==
    /\ TgPointer
    /\ t # tg.activeTab
    /\ tg' = [tg EXCEPT !.activeTab = t, !.focus = FALSE]
    /\ UNCHANGED view
    /\ TgUnchanged

\* The user puts the cursor into the search input.
TgFocusInput ==
    /\ TgPointer
    /\ tg.activeTab = "search"
    /\ ~tg.focus
    /\ tg' = [tg EXCEPT !.focus = TRUE]
    /\ UNCHANGED view
    /\ TgUnchanged

\* onChange={(e) => setSearchQuery(e.target.value)}
TgType(t) ==
    /\ view = "Telegram"
    /\ tg.focus
    /\ t # tg.searchQuery
    /\ tg' = [tg EXCEPT !.searchQuery = t]
    /\ UNCHANGED view
    /\ TgUnchanged

\* searchPrice: if (!searchQuery.trim()) return; otherwise the call starts.
SearchPrice ==
    /\ Trim(tg.searchQuery) # <<>>
    /\ Cardinality(tg.calls) < MaxFetches
    /\ tg' = SearchPriceStart(tg)
    /\ UNCHANGED view
    /\ TgUnchanged

\* onKeyDown={(e) => e.key === 'Enter' && searchPrice()} of the focused input
TgSearchEnter ==
    /\ view = "Telegram"
    /\ tg.focus
    /\ SearchPrice

\* The search button: onClick={searchPrice} disabled={loading}
TgSearchClick ==
    /\ TgPointer
    /\ tg.activeTab = "search"
    /\ SearchPrice

\* The state after the awaited response of call r: "ok" is a 2xx, "status" a
\* non-2xx with a JSON body, "throw" a rejected fetch or an unreadable body.
TgAfter(t, r, outcome) ==
    CASE r.op = "load" ->
            [t EXCEPT !.opportunities =
                          CASE outcome = "ok" -> SortByScore(r.data)
                            [] outcome = "status" -> <<>>
                            [] OTHER -> @,
                      !.loading = FALSE]
      [] r.op = "stats" ->
            [t EXCEPT !.stats = IF outcome = "ok" THEN TRUE ELSE @]
      [] OTHER ->
            [t EXCEPT !.searchResults = IF outcome = "ok" THEN TRUE ELSE @,
                      !.loading = FALSE]

TgOutcomes == {"ok", "status", "throw"}

\* The awaited response of call r arrives and the rest of its function runs.
TgDeliver(r, outcome) ==
    /\ view = "Telegram"
    /\ r \in tg.calls
    /\ tg' = TgAfter([tg EXCEPT !.calls = @ \ {r}], r, outcome)
    /\ UNCHANGED view
    /\ TgUnchanged

\* Another session removes item i (DELETE /items/{id}); the backend owns the
\* items and the client holds copies only.
ExternalDelete(i) ==
    /\ itemStatus[i] # "deleted"
    /\ itemStatus' = [itemStatus EXCEPT ![i] = "deleted"]
    /\ UNCHANGED <<orderStatus, schedRunning, view, local, cache, fetches,
                   muts, awaiting, settled, tg,
                   focused, minScoreApplied>>

\* ------------------------------------------------------- specifications
Network ==
    \/ \E r \in fetches, ok \in BOOLEAN : DeliverFetch(r, ok)
    \/ \E r \in fetches : FailFetch(r)
    \/ \E k \in Keys : RetryFetch(k)
    \/ \E m \in muts, ok \in BOOLEAN : DeliverMutation(m, ok)

\* The item triage: the Items view with its pages, approvals and rejections.
Next ==
    \/ Navigate("Items")
    \/ ItemsPrevPage
    \/ ItemsNextPage
    \/ \E i \in ClickItems : ItemsApprove(i)
    \/ \E i \in ClickItems : ItemsReject(i)
    \/ Network

Spec == InitNoItemsList /\ [][Next]_vars

\* The Opportunities view, opened directly or after the Dashboard.
NextOpportunities ==
    \/ view = "none" /\ Navigate("Dashboard")
    \/ Navigate("Opportunities")
    \/ OppApprove(1)
    \/ OppAnalyze
    \/ OppRefetch
    \/ \E k \in Keys : PollTick(k)
    \/ Network

SpecOpportunities == Init /\ [][NextOpportunities]_vars

\* The two lists of opportunities: the Opportunities view with the
\* decisions on its first card, and the mini-app with its refresh button,
\* each opened from the other.
NextGrid ==
    \/ Navigate("Opportunities")
    \/ OppApprove(1)
    \/ OppReject(1)
    \/ TgMount
    \/ TgRefresh
    \/ \E r \in tg.calls, outcome \in TgOutcomes : TgDeliver(r, outcome)
    \/ Network

SpecGrid == Init /\ [][NextGrid]_vars

\* The Orders view: its first page with the two tabs and the completion of
\* an order.
NextOrders ==
    \/ Navigate("Orders")
    \/ \E b \in BOOLEAN : OrdersSetShowPending(b)
    \/ \E o \in ClickOrders : OrdersComplete(o)
    \/ Network

SpecOrders == InitNoItemsList /\ [][NextOrders]_vars

\* The Orders view with the completion of an order, its "Tutti" tab opened
\* once.
NextComplete ==
    \/ Navigate("Orders")
    \/ OrdersSetShowPending(FALSE)
    \/ \E o \in ClickOrders : OrdersComplete(o)
    \/ Network

SpecComplete == InitNoItemsList /\ [][NextComplete]_vars

\* The paginated tables: the Listings view or the Orders view is opened
\* and browsed with its filter and its pager; no mutation is dispatched.
NextListings ==
    \/ \E v \in {"Listings", "Orders"} : view = "none" /\ Navigate(v)
    \/ \E f \in FilterValues : ListingsSetFilter(f)
    \/ ListingsPrevPage
    \/ ListingsNextPage
    \/ \E b \in BOOLEAN : OrdersSetShowPending(b)
    \/ OrdersPrevPage
    \/ OrdersNextPage
    \/ \E r \in fetches, ok \in BOOLEAN : DeliverFetch(r, ok)
    \/ \E r \in fetches : FailFetch(r)
    \/ \E k \in Keys : RetryFetch(k)

SpecListings == InitNoItemsList /\ [][NextListings]_vars

\* The Settings view.
NextSettings ==
    \/ Navigate("Settings")
    \/ SettingsStart
    \/ SettingsStop
    \/ SettingsTestTelegram
    \/ \E c \in CategoryIds : SettingsScrapeCategory(c)
    \/ \E k \in Keys : PollTick(k)
    \/ Network

SpecSettings == InitNoItemsList /\ [][NextSettings]_vars

\* Settings with two of its controls: the scheduler start, whose onSuccess
\* waits for the refetch, and the Telegram test, whose callbacks alert.
NextControls ==
    \/ Navigate("Settings")
    \/ SettingsStart
    \/ SettingsTestTelegram
    \/ \E k \in Keys : PollTick(k)
    \/ Network

SpecControls == InitNoItemsList /\ [][NextControls]_vars

\* The Dashboard with its quick-scrape box.
NextDashboard ==
    \/ Navigate("Dashboard")
    \/ \E t \in Strings(MaxLen) : DashboardType(t)
    \/ DashboardScrape
    \/ ScrapeBannerTimeout
    \/ \E k \in Keys : PollTick(k)
    \/ Network

SpecDashboard == InitNoItemsList /\ [][NextDashboard]_vars

\* The Telegram mini-app, with a backend whose items change meanwhile.
NextTelegram ==
    \/ TgMount
    \/ TgRefresh
    \/ \E t \in {"opportunities", "search", "stats"} : TgSetTab(t)
    \/ TgFocusInput
    \/ \E t \in Strings(MaxTgLen) : TgType(t)
    \/ TgSearchEnter
    \/ TgSearchClick
    \/ \E r \in tg.calls, outcome \in TgOutcomes : TgDeliver(r, outcome)
    \/ \E i \in {1} : ExternalDelete(i)

SpecTelegram == Init /\ [][NextTelegram]_vars

\* The polled pages: Settings and, opened first or after it, the Dashboard,
\* with their intervals and with the scheduler start, which invalidates a
\* polled query.
NextPolling ==
    \/ view = "none" /\ Navigate("Settings")
    \/ Navigate("Dashboard")
    \/ SettingsStart
    \/ \E k \in Keys : PollTick(k)
    \/ Network

SpecPolling == InitNoItemsList /\ [][NextPolling]_vars

\* A polled page, Settings or the Dashboard, opened and kept open, in a
\* window that is hidden and shown again; the start button is clicked in the
\* visible page.
NextPolled ==
    \/ \E v \in {"Settings", "Dashboard"} : view = "none" /\ Navigate(v)
    \/ focused /\ SettingsStart
    \/ \E k \in Keys : PollTick(k)
    \/ WindowBlur
    \/ WindowFocus
    \/ Network

\* The timers of the library fire: an interval callback that may fetch does
\* so, and the delay of a retry ends.  Nothing makes the network answer (the
\* axios instance has no timeout) or the page stay visible.
FairPolling ==
    /\ InitNoItemsList /\ [][NextPolled]_vars
    /\ WF_vars(PollTick(StatsKey)) /\ WF_vars(PollTick(SchedKey))
    /\ WF_vars(RetryFetch(StatsKey)) /\ WF_vars(RetryFetch(SchedKey))

\* ------------------------------------------------------------ the claims
PendingKeys == {k \in Keys : k.kind = "pending-items"}

\* C1: every successful approve, from the Items or the Opportunities view,
\* leaves every cached pending-items query and the dashboard-stats query
\* invalidated when it settles.
C1_ApproveInvalidatesBoth ==
    [][\A m \in muts :
          (ActionOf(m.name) = "approve" /\ DeliverMutation(m, TRUE))
          => \A k \in Keys :
                (k.kind \in {"pending-items", "dashboard-stats"} /\ cache[k].exists)
                => cache'[k].invalidated]_vars

\* The Items view starts to read key k in this step.
ReadOf(k) ==
    /\ view' = "Items"
    /\ k = PendingKey(page')
    /\ view # "Items" \/ page # page'

\* C2: the next read of a served pending-items query that an approve has
\* invalidated puts a fresh fetch on the wire: the current fetch of the key
\* then carries the list as it is after the mutation, not an earlier one,
\* or its GET is still to be sent, when the delay of a retry is over.
C2_ReadAfterInvalidationFetches ==
    [][\A k \in PendingKeys :
          (ReadOf(k) /\ cache[k].hasData /\ cache[k].invalidated)
          => \/ \E r \in fetches' :
                   /\ r.key = k
                   /\ r.cur
                   /\ r.data = Respond(k, itemStatus, orderStatus, schedRunning)
             \/ cache'[k].fetching /\ cache'[k].retryWait > 0]_vars

\* C3: at most one request per (action, trigger, resource id) is outstanding.
C3_OneRequestPerTrigger ==
    \A m1, m2 \in muts : (m1.name = m2.name /\ m1.arg = m2.arg) => m1 = m2

\* C4: a failed state-changing request changes no cache entry and
\* invalidates none; no GET is started for it.
C4_FailureLeavesCache ==
    [][\A m \in muts :
          DeliverMutation(m, FALSE) => (cache' = cache /\ fetches' = fetches)]_vars

\* A complete of order 1 has failed and the cached order is as it was:
\* shipped_to_buyer, neither invalidated nor being fetched.
C4_Witness ==
    /\ settled.name = "Orders.complete"
    /\ ~settled.ok
    /\ cache[OrdersKey(1, TRUE)].hasData
    /\ <<1, "shipped_to_buyer">> \in cache[OrdersKey(1, TRUE)].data.rows
    /\ ~cache[OrdersKey(1, TRUE)].invalidated
    /\ ~cache[OrdersKey(1, TRUE)].fetching

\* C5: every failed state-changing request shows an error to the user.
C5_FailureSurfaced ==
    [][\A m \in muts : DeliverMutation(m, FALSE) => settled'.alert]_vars

\* C6: the data of a cache entry changes only by applying the 2xx response
\* of the current fetch of its key; dispatching a mutation and its callbacks
\* write no data, they only mark entries.
C6_OnlyFetchesWriteData ==
    [][\A k \in Keys :
          (cache'[k].data # cache[k].data \/ cache'[k].hasData # cache[k].hasData)
          => \E r \in fetches :
                /\ r.key = k
                /\ r.cur
                /\ DeliverFetch(r, TRUE)
                /\ cache'[k].data = r.data]_vars

\* The complete of order 1 has succeeded, the backend holds it completed, and
\* the cache still holds the status the server sent earlier, marked
\* invalidated.
C6_Witness ==
    /\ settled.name = "Orders.complete"
    /\ settled.ok
    /\ orderStatus[1] = "completed"
    /\ \E b \in BOOLEAN :
          /\ cache[OrdersKey(1, b)].hasData
          /\ cache[OrdersKey(1, b)].invalidated
          /\ <<1, "shipped_to_buyer">> \in cache[OrdersKey(1, b)].data.rows

\* C7: at most one fetch of a key is on the wire at any time, for the cached
\* queries and for the opportunities list of the mini-app.
C7_OneFetchPerKey ==
    /\ \A k \in Keys : Cardinality({r \in fetches : r.key = k}) <= 1
    /\ Cardinality({r \in tg.calls : r.op = "load"}) <= 1

\* C8: the response of a request that a later request of the same key has
\* superseded is discarded when it arrives: it changes neither the cache
\* entry nor the list the mini-app shows.
C8_SupersededResponseDropped ==
    [][/\ \A r \in fetches :
             (~r.cur /\ \E ok \in BOOLEAN : DeliverFetch(r, ok)) => cache' = cache
       /\ \A r \in tg.calls :
             (r.op = "load" /\ ~r.latest /\ \E o \in TgOutcomes : TgDeliver(r, o))
             => tg'.opportunities = tg.opportunities]_vars

\* C9: once the approve of item X has succeeded on the server, a mounted
\* pending list that still shows X is on its way to dropping it: its entry
\* is marked invalidated or a fetch of it is outstanding.
C9_ApprovedItemLeavesList ==
    \A i \in ItemIds :
        (itemStatus[i] = "approved" /\ view = "Items"
         /\ i \in Shown(PendingKey(page)))
        => (cache[PendingKey(page)].invalidated \/ cache[PendingKey(page)].fetching)

\* C10: every successful state-changing call leaves some cached query
\* invalidated when it settles.
C10_SuccessInvalidates ==
    [][\A m \in muts :
          (DeliverMutation(m, TRUE) /\ ActionOf(m.name) # "test-telegram")
          => \E k \in Keys : cache'[k].exists /\ cache'[k].invalidated]_vars

\* The GETs of key k on the wire.
FetchesOf(f, k) == {r \in f : r.key = k}

\* A GET of the mounted key k goes on the wire in this step: by an interval
\* tick, or by the invalidation of a mutation that succeeds.
Reissue(k) ==
    \/ PollTick(k)
    \/ /\ ~(cache[k].fetching /\ ~cache[k].hasData)
       /\ \E m \in muts :
             /\ DeliverMutation(m, TRUE)
             /\ \E n \in 1..Len(OnSuccessInvalidates(m.name)) :
                   OnSuccessInvalidates(m.name)[n] = k.kind

\* C11: while the Dashboard stays mounted, a GET of dashboard-stats goes on
\* the wire again and again, and while Settings stays mounted, a GET of
\* scheduler-status does, whatever mutations and user actions happen.
C11_PollingRepeats ==
    /\ []<>(view # "Dashboard") \/ []<><<Reissue(StatsKey)>>_vars
    /\ []<>(view # "Settings") \/ []<><<Reissue(SchedKey)>>_vars

\* C11: when from some time on the Dashboard is mounted in a visible page,
\* and again and again no GET of dashboard-stats is on the wire (every GET
\* of it is answered), a GET of dashboard-stats goes on the wire again and
\* again, whatever mutations and user actions happen; likewise for Settings
\* and scheduler-status.
C11_PollingRepeatsWhileVisible ==
    /\ (/\ <>[](view = "Dashboard" /\ focused)
        /\ []<>(FetchesOf(fetches, StatsKey) = {}))
       => []<><<Reissue(StatsKey)>>_vars
    /\ (/\ <>[](view = "Settings" /\ focused)
        /\ []<>(FetchesOf(fetches, SchedKey) = {}))
       => []<><<Reissue(SchedKey)>>_vars

\* Settings is mounted in a visible page with the scheduler status on
\* screen and a fetch of it in the background, with no mutation on the wire
\* and none settled.
C11_Witness ==
    /\ view = "Settings"
    /\ focused
    /\ cache[SchedKey].hasData
    /\ cache[SchedKey].fetching
    /\ ~cache[SchedKey].invalidated
    /\ muts = {}
    /\ settled = NoSettled

\* C12: while no consumer of a polled query is mounted, before and after a
\* step, the step puts no GET of that query on the wire.
C12_NoPollWhenUnmounted ==
    [][\A k \in {StatsKey, SchedKey} :
          (k \notin ActiveKeys(view, page, showPendingOnly, statusFilter)
           /\ k \notin ActiveKeys(view', page', showPendingOnly', statusFilter'))
          => FetchesOf(fetches', k) \subseteq FetchesOf(fetches, k)]_vars

\* Settings was left for the Dashboard; the scheduler status it had fetched
\* has since been invalidated by a start that succeeded, and no GET of it
\* is on the wire.
C12_Witness ==
    /\ view = "Dashboard"
    /\ cache[SchedKey].hasData
    /\ cache[SchedKey].invalidated
    /\ schedRunning
    /\ FetchesOf(fetches, SchedKey) = {}

\* C13: a failed read, of a cached query or of the mini-app's list, leaves
\* the value held before on display (and raises the error flag of the
\* query); it never empties the list.
C13_FailedReadKeepsData ==
    [][/\ \A r \in fetches :
             DeliverFetch(r, FALSE)
             => /\ cache'[r.key].data = cache[r.key].data
                /\ cache'[r.key].hasData = cache[r.key].hasData
                /\ r.cur => cache'[r.key].err
       /\ \A r \in tg.calls, o \in {"status", "throw"} :
             (r.op = "load" /\ TgDeliver(r, o))
             => tg'.opportunities = tg.opportunities]_vars

\* C14: a response that arrives after its query lost its mounted observer,
\* or after the same query or call was triggered again, changes no shared
\* state: the cache is as before, and so is the state of the mini-app.
C14_LateResponseDropped ==
    [][/\ \A r \in fetches :
             (/\ \E ok \in BOOLEAN : DeliverFetch(r, ok)
              /\ ~r.cur \/ r.key \notin ActiveKeys(view, page, showPendingOnly, statusFilter))
             => cache' = cache
       /\ \A r \in tg.calls :
             (~r.latest /\ \E o \in TgOutcomes : TgDeliver(r, o))
             => tg' = [tg EXCEPT !.calls = @ \ {r}]]_vars

\* C15 as stated: when the request a control dispatched is answered, with
\* success or with failure, the isPending that disables the control is false
\* again; and isPending of a mutation is true only while a request of it
\* is on the wire.
C15_DisabledOnlyWhileOnWire ==
    [][/\ \A m \in muts, ok \in BOOLEAN :
             (m.observed /\ DeliverMutation(m, ok)) => ~IsPending(m.name)'
       /\ \A name \in MutNames :
             IsPending(name) => \E m \in muts : m.name = name]_vars

\* C15: a control is disabled only while a request of its mutation is on
\* the wire or, for the scheduler start and stop, while the refetch their
\* onSuccess waits for is; a failed request leaves isPending false at once,
\* and so does a successful one whose onSuccess waits for nothing; the end
\* of the awaited refetch, with data or with an error, enables the control.
C15_ControlReenabled ==
    [][/\ \A m \in muts :
             (m.observed /\ DeliverMutation(m, FALSE)) => ~IsPending(m.name)'
       /\ \A m \in muts :
             (m.observed /\ DeliverMutation(m, TRUE) /\ ~AwaitsRefetch(m.name))
             => ~IsPending(m.name)'
       /\ \A name \in MutNames :
             IsPending(name) =>
                 \/ \E m \in muts : m.name = name
                 \/ /\ AwaitsRefetch(name)
                    /\ \/ \E r \in fetches : r.cur /\ r.key \in AwaitedKeys(name)
                       \/ \E k \in AwaitedKeys(name) : cache[k].retryWait > 0
       /\ \A r \in fetches, ok \in BOOLEAN :
             (r.cur /\ DeliverFetch(r, ok)) =>
                 \A name \in MutNames :
                     (r.key \in AwaitedKeys(name) /\ IsPending(name)')
                     => \E m \in muts : m.name = name]_vars

\* On Settings the start has been answered with success and no request of it
\* is on the wire; "Avvia" is still disabled, until the refetch of the
\* scheduler status that is on the wire ends.
C15_Witness ==
    /\ view = "Settings"
    /\ settled.name = "Settings.start"
    /\ settled.ok
    /\ muts = {}
    /\ IsPending("Settings.start")
    /\ \E r \in fetches : r.cur /\ r.key = SchedKey

\* C16: a view requests a decision on an item only while the item is
\* pending on the server, so that what it asks for is pending to approved or
\* pending to rejected; and whenever the status of an item changes, it
\* changes from pending to approved or to rejected.
C16_ItemStatusForward ==
    [][/\ \A i \in ItemIds :
             (ItemsApprove(i) \/ ItemsReject(i) \/ OppApprove(i) \/ OppReject(i))
             => itemStatus[i] = "pending"
       /\ \A i \in ItemIds :
             itemStatus'[i] # itemStatus[i]
             => /\ itemStatus[i] = "pending"
                /\ itemStatus'[i] \in {"approved", "rejected"}]_vars

\* C17: no item has an approve request and a reject request of a view on
\* the wire together.
C17_OneDecisionPerItem ==
    \A m1, m2 \in muts :
        ~(/\ m1.arg = m2.arg
          /\ ActionOf(m1.name) = "approve"
          /\ ActionOf(m2.name) = "reject")

\* C18: the outcome of a fetch is stored under the key it was issued for
\* and leaves the entry of every other key (another page, another filter,
\* another resource) as it was.
C18_EntriesIndependent ==
    [][\A r \in fetches, ok \in BOOLEAN :
          DeliverFetch(r, ok) =>
              /\ \A k \in Keys \ {r.key} : cache'[k] = cache[k]
              /\ (r.cur /\ ok) => cache'[r.key].data = r.data]_vars

\* The Orders view holds the two pages of its list, with different rows.
C18_Witness ==
    /\ view = "Orders"
    /\ cache[OrdersKey(1, TRUE)].hasData
    /\ cache[OrdersKey(2, TRUE)].hasData
    /\ cache[OrdersKey(1, TRUE)].data # cache[OrdersKey(2, TRUE)].data
    /\ fetches = {}

\* A view starts to read key k in this step: its useQuery mounts, or its key
\* changes to k.
StartsReading(k) ==
    /\ k \notin ActiveKeys(view, page, showPendingOnly, statusFilter)
    /\ k \in ActiveKeys(view', page', showPendingOnly', statusFilter')

\* C19: a read of a key hands the cached value to the view in the same
\* step (the value is kept as it is, and the view is not in its loading
\* branch when there is one), and a fetch of the key is outstanding after
\* it, with its GET on the wire or its retry waiting; when no fetch of the
\* key was outstanding before the read, the read puts a new GET on the wire.
C19_ReadServesCacheAndFetches ==
    [][\A k \in Keys :
          StartsReading(k) =>
              /\ cache'[k].hasData = cache[k].hasData
              /\ cache'[k].data = cache[k].data
              /\ cache[k].hasData => ~IsLoading(k)'
              /\ FetchOutstanding(cache', fetches', k)
              /\ ~cache[k].fetching =>
                     \E r \in fetches' \ fetches : r.key = k /\ r.cur]_vars

\* Back on the "Da gestire" tab the cached list is on screen and a fetch of
\* it is in the background.
C19_Witness ==
    /\ view = "Orders"
    /\ page = 1
    /\ showPendingOnly
    /\ cache[OrdersKey(1, FALSE)].hasData
    /\ cache[OrdersKey(1, TRUE)].hasData
    /\ cache[OrdersKey(1, TRUE)].fetching
    /\ ~cache[OrdersKey(1, TRUE)].invalidated
    /\ Shown(OrdersKey(1, TRUE)) # {}
    /\ muts = {}
    /\ settled = NoSettled

\* Two records of one GET, and of one mutation request: the flags cur and
\* observed change while the request is on the wire.
SameGet(a, b) ==
    a.key = b.key /\ a.data = b.data /\ a.tries = b.tries /\ a.id = b.id

SameMut(a, b) ==
    a.name = b.name /\ a.arg = b.arg /\ a.queries = b.queries /\ a.id = b.id

\* The mutation requests on the wire after a step that were not before it.
NewMuts == {m \in muts' : \A q \in muts : ~SameMut(q, m)}

\* The GETs on the wire after a step that were not before it.
NewGets == {r \in fetches' : \A q \in fetches : ~SameGet(q, r)}

\* The GETs of key k on the wire after a step that were not before it.
NewFetches(k) == FetchesOf(NewGets, k)

\* C20: a call of an api function puts one request on the wire and a
\* failure of that request takes it off: a failed mutation starts neither a
\* mutation request nor a GET and is not sent again; a step in which a GET
\* leaves the wire, answered or failed, puts no GET on it, whether the cache
\* takes the failure as final or will answer it by a retry; when the delay
\* of the retry is over and the cache calls the queryFn again, that call
\* puts one GET of the key on the wire, and none when the retry was
\* cancelled; a click dispatches one request, and no step starts two
\* requests of one operation.
C20_OneRequestNoRetry ==
    [][/\ \A m \in muts :
             DeliverMutation(m, FALSE) =>
                 /\ muts' = muts \ {m}
                 /\ fetches' = fetches
                 /\ settled'.name = m.name /\ ~settled'.ok
       /\ fetches' # fetches =>
             /\ (\E r \in fetches : \A q \in fetches' : ~SameGet(q, r)) =>
                    /\ NewGets = {}
                    /\ muts' = muts
                    /\ Cardinality(fetches') = Cardinality(fetches) - 1
             /\ \A r1, r2 \in NewGets : r1.key = r2.key => r1 = r2
             /\ \A k \in {q \in Keys : cache[q].retryWait > cache'[q].retryWait} :
                    RetryFetch(k) =>
                        /\ Cardinality(NewFetches(k)) =
                               IF k \in ActiveKeys(view, page, showPendingOnly,
                                                   statusFilter)
                               THEN 1 ELSE 0
                        /\ fetches' \ fetches = NewFetches(k)
                        /\ fetches \subseteq fetches'
                        /\ muts' = muts
       /\ muts' # muts =>
             /\ \A o \in ClickOrders :
                    OrdersComplete(o) =>
                        \E n \in NewMuts :
                            n.name = "Orders.complete" /\ n.arg = o /\ n.observed
             /\ Cardinality(NewMuts) <= 1]_vars

\* The complete of order 1 has failed: nothing is on the wire, and the order
\* is shipped_to_buyer on the server and on screen.
C20_Witness ==
    /\ view = "Orders"
    /\ settled.name = "Orders.complete"
    /\ ~settled.ok
    /\ muts = {}
    /\ fetches = {}
    /\ orderStatus[1] = "shipped_to_buyer"
    /\ 1 \in Shown(OrdersKey(1, showPendingOnly))

\* C21: a successful listings response with no listing and total 0 puts the
\* Listings view in its empty box, and the view is in the empty box
\* whenever the data it holds for its key is an empty list.
C21_EmptyListRendersEmpty ==
    [][/\ \A r \in fetches :
             (/\ DeliverFetch(r, TRUE)
              /\ r.cur
              /\ view = "Listings"
              /\ r.key = ListingsKey(page, statusFilter)
              /\ r.data.rows = {}
              /\ r.data.total = 0)
             => ListingsRender' = "empty"
       /\ (/\ view = "Listings"
           /\ cache[ListingsKey(page, statusFilter)].hasData
           /\ cache[ListingsKey(page, statusFilter)].data.rows = {})
          => ListingsRender = "empty"]_vars

C21_Witness ==
    /\ view = "Listings"
    /\ statusFilter = "draft"
    /\ page = 1
    /\ cache[ListingsKey(1, "draft")].hasData
    /\ cache[ListingsKey(1, "draft")].data.total = 0
    /\ ~cache[ListingsKey(1, "draft")].err
    /\ fetches = {}
    /\ ListingsRender = "empty"

\* The per_page the queryFn of a paginated list key sends.
PerPageOf(kind) ==
    CASE kind = "pending-items" -> PerPageItems
      [] kind = "orders" -> PerPageOrders
      [] OTHER -> PerPageListings

PagedKinds == {"pending-items", "orders", "listings"}

\* A list body is within its page size and its page count is the ceiling
\* of total / per_page.
WellPaged(d, n) == Cardinality(d.rows) <= n /\ d.pages = CeilDiv(d.total, n)

EndpointOfKey(k) ==
    CASE k.kind = "pending-items" -> "GET /items/pending"
      [] k.kind = "opportunities" -> "GET /items/"
      [] k.kind = "dashboard-stats" -> "GET /analytics/dashboard"
      [] k.kind = "daily-profit" -> "GET /analytics/profit/daily"
      [] k.kind = "orders" ->
            IF k.filter = "pending" THEN "GET /orders/pending" ELSE "GET /orders"
      [] k.kind = "listings" -> "GET /listings"
      [] k.kind = "scheduler-status" -> "GET /scheduler/status"
      [] OTHER -> "GET /scheduler/categories"

\* The method and path of the request a mutationFn makes (api.ts).
EndpointOfMut(name) ==
    CASE name \in {"Items.approve", "Opportunities.approve"} ->
            "POST /items/{id}/approve"
      [] name \in {"Items.reject", "Opportunities.reject"} ->
            "POST /items/{id}/reject"
      [] name = "Opportunities.analyze" -> "POST /items/analyze-pending"
      [] name = "Orders.complete" -> "POST /orders/{id}/complete"
      [] name = "Settings.start" -> "POST /scheduler/start"
      [] name = "Settings.stop" -> "POST /scheduler/stop"
      [] name = "Settings.testTelegram" -> "POST /scheduler/test-telegram"
      [] name = "Settings.scrapeCategory" ->
            "POST /scheduler/scrape-category/{id}"
      [] OTHER -> "POST /scraper/start"

\* The method and path of the fetch() of a mini-app call.
EndpointOfTg(op) ==
    CASE op = "load" -> "GET /items/"
      [] op = "stats" -> "GET /items/stats"
      [] OTHER -> "POST /items/analyze"

\* The endpoints of the external-interface section, under /api/v1.
SpecEndpoints ==
    {"GET /items", "GET /items/pending", "GET /items/{id}",
     "POST /items/{id}/approve", "POST /items/{id}/reject",
     "DELETE /items/{id}", "POST /items/{id}/analyze",
     "POST /items/analyze-pending",
     "GET /listings", "GET /listings/active", "GET /listings/{id}",
     "POST /listings/{id}/publish", "POST /listings/{id}/end",
     "GET /orders", "GET /orders/pending", "GET /orders/{id}",
     "POST /orders/{id}/mark-purchased", "POST /orders/{id}/mark-shipped",
     "POST /orders/{id}/complete",
     "GET /analytics/dashboard", "GET /analytics/profit/daily",
     "GET /analytics/sources", "GET /analytics/categories",
     "POST /scraper/start", "GET /scraper/status",
     "GET /scheduler/status", "POST /scheduler/start",
     "POST /scheduler/stop", "PUT /scheduler/settings",
     "POST /scheduler/test-telegram", "GET /scheduler/categories",
     "POST /scheduler/scrape-category/{id}"}

\* The listed endpoint a request line falls under: a trailing slash names
\* the same collection, and GET /items/stats has the shape of
\* GET /items/{id}; any other line stands for itself.
ListedAs(e) ==
    CASE e = "GET /items/" -> "GET /items"
      [] e = "GET /items/stats" -> "GET /items/{id}"
      [] OTHER -> e

\* C23: every request on the wire, of the dashboard and of the mini-app,
\* goes to an endpoint of the external-interface list.
C23_OnlyListedEndpoints ==
    /\ \A r \in fetches : ListedAs(EndpointOfKey(r.key)) \in SpecEndpoints
    /\ \A m \in muts : ListedAs(EndpointOfMut(m.name)) \in SpecEndpoints
    /\ \A r \in tg.calls : ListedAs(EndpointOfTg(r.op)) \in SpecEndpoints

\* C24: the page the Items view is on lies within 1..max(1, pages) of the
\* list it holds for that page.
C24_PageWithinPages ==
    (view = "Items" /\ cache[PendingKey(page)].hasData)
    => /\ 1 <= page
       /\ page <= Max(1, cache[PendingKey(page)].data.pages)

\* C25: the loading flag of the mini-app is set whenever a loadOpportunities
\* or a searchPrice call is waiting for its response.
C25_LoadingWhileInFlight ==
    (\E r \in tg.calls : r.op \in {"load", "search"}) => tg.loading

\* C26: a change of the Listings status filter and a toggle of the Orders
\* pending-only switch keep the page, and the query that follows is for the
\* old page with the new filter (a fetch of that key is outstanding, and is
\* a new GET unless one was outstanding); in both views the page moves only
\* by one, through the previous and next buttons, and it is never below 1.
C26_FilterKeepsPage ==
    [][/\ \A f \in FilterValues :
             ListingsSetFilter(f) =>
                 /\ page' = page
                 /\ FetchOutstanding(cache', fetches', ListingsKey(page, f))
                 /\ ~cache[ListingsKey(page, f)].fetching =>
                        \E r \in fetches' \ fetches :
                            r.key = ListingsKey(page, f) /\ r.cur
       /\ \A b \in BOOLEAN :
             OrdersSetShowPending(b) =>
                 /\ page' = page
                 /\ FetchOutstanding(cache', fetches', OrdersKey(page, b))
                 /\ ~cache[OrdersKey(page, b)].fetching =>
                        \E r \in fetches' \ fetches :
                            r.key = OrdersKey(page, b) /\ r.cur
       /\ (view = "Listings" /\ view' = "Listings" /\ page' # page) =>
             /\ ListingsPrevPage \/ ListingsNextPage
             /\ page' \in {page - 1, page + 1}
       /\ (view = "Orders" /\ view' = "Orders" /\ page' # page) =>
             /\ OrdersPrevPage \/ OrdersNextPage
             /\ page' \in {page - 1, page + 1}
       /\ page' >= 1]_vars

\* The Listings view is on page 2 of the drafts, which it reached on page 2
\* of the full list.
C26_Witness ==
    /\ view = "Listings"
    /\ page = 2
    /\ statusFilter = "draft"
    /\ cache[ListingsKey(2, "draft")].hasData
    /\ fetches = {}

\* C27: a start request is dispatched only while the scheduler is stopped
\* on the server, and a stop request only while it is running there.
C27_StartStopFollowsServer ==
    [][/\ SettingsStart => ~schedRunning
       /\ SettingsStop => schedRunning]_vars

\* C28: every start-scraper request on the wire carries at least one query,
\* and none of its queries is empty or made of blanks only; the request a
\* click dispatches carries the typed text split on commas, trimmed, with
\* the empty parts removed.
C28_ScrapeQueriesNonEmpty ==
    [][/\ \A m \in muts' :
             m.name = "Dashboard.scrape" =>
                 /\ Len(m.queries) > 0
                 /\ \A n \in 1..Len(m.queries) : Trim(m.queries[n]) # <<>>
       /\ DashboardScrape =>
             \E m \in muts' :
                 /\ m.name = "Dashboard.scrape"
                 /\ m.observed
                 /\ m.queries = ScrapeQueries(searchQuery)]_vars

\* The text "a," is in the box and its one query is on the wire.
C28_Witness ==
    /\ view = "Dashboard"
    /\ searchQuery = <<"a", ",">>
    /\ \E m \in muts :
          m.name = "Dashboard.scrape" /\ m.observed /\ m.queries = << <<"a">> >>

\* The cards of the Opportunities grid, in display order:
\* analyzedItems.sort((a, b) => (b.ai_score || 0) - (a.ai_score || 0)) over
\* the response taken in ascending id order.
OppGrid == SortByScore(Ascending(AnalyzedItems))

Elements(q) == {q[n] : n \in 1..Len(q)}

NonIncreasingScore(q) ==
    \A n \in 1..(Len(q) - 1) : Score(q[n]) >= Score(q[n + 1])

\* C29: the Opportunities grid holds, once each, the items of the cached
\* response with a score of at least 60 and no others (none with a lower, a
\* zero or a null score), in non-increasing score order, and its counter is
\* their number; the list of the mini-app is in non-increasing score order.
C29_GridFilteredAndSorted ==
    /\ Elements(OppGrid)
           = {i \in Ids(cache[OppKey].data) :
                  cache[OppKey].hasData /\ Score(i) >= MinScore}
    /\ Len(OppGrid) = Cardinality(Elements(OppGrid))
    /\ Cardinality(AnalyzedItems) = Len(OppGrid)
    /\ NonIncreasingScore(OppGrid)
    /\ NonIncreasingScore(tg.opportunities)

\* The backend ignores min_score: the cached response of the mounted
\* Opportunities view holds an item below the threshold and one that is not
\* analysed, which the grid leaves out, and the two opportunities came in
\* ascending score order, which the grid reverses.
C29_Witness ==
    /\ view = "Opportunities"
    /\ ~minScoreApplied
    /\ ~cache[OppKey].fetching
    /\ {3, 4} \subseteq Shown(OppKey)
    /\ OppGrid = <<2, 1>>

====
